---- MODULE Spec2Model ----
(***************************************************************************)
(* Model of pyre_extensions/__init__.py: none_throws and the two           *)
(* placeholder factories ParameterSpecification and ListVariadic.          *)
(*                                                                         *)
(* Several callers (threads) run the module's functions.  Every caller has *)
(* its own frame: the function it is in, the line it is at and the local   *)
(* bound to the parameter.  List objects live on a shared heap, so that a  *)
(* returned list has an identity and contents that callers can change.     *)
(***************************************************************************)
EXTENDS Integers, Sequences, FiniteSets

VARIABLES fn, pc, arg, optional, name, outcome, heap, module_globals

vars ==
  <<fn, pc, arg, optional, name, outcome, heap, module_globals>>

(* ------------------------------ bounds --------------------------------- *)

\* number of list objects the heap may hold
MaxObjs ==
  2

\* number of elements the callers may append to the lists, in total
MaxAppends ==
  1

\* number of concurrent callers
NumCallers ==
  2

Callers ==
  1..NumCallers

(* --------------------------- Python values ----------------------------- *)

\* the None singleton
PyNone ==
  [type |-> "NoneType"]

PyInt(n) ==
  [type |-> "int", int |-> n]

PyBool(b) ==
  [type |-> "bool", bool |-> b]

PyStr(s) ==
  [type |-> "str", str |-> s]

\* a reference to the list object at heap address id
PyList(id) ==
  [type |-> "list", id |-> id]

\* typing.Any, imported at line 2
Any ==
  [type |-> "typing.Any"]

\* a local that is not bound (no frame, or the other function's parameter)
Unbound ==
  [type |-> "unbound"]

\* values without contents: None, present falsy values, a present truthy one
Immutables ==
  {PyNone, PyInt(0), PyInt(7), PyBool(FALSE), PyStr("")}

\* references to the lists allocated on heap h
Refs(h) ==
  {PyList(i) : i \in 1..Len(h)}

\* arguments a caller can pass to none_throws
Arguments(h) ==
  Immutables \cup Refs(h)

\* arguments a caller passes to the factories
Names ==
  {PyStr("Tparams"), PyStr("Ts")}

\* elements a caller appends to a list it was given
AppendValues ==
  {PyInt(7)}

\* `x is y`: object identity.  None is a singleton; an immutable value is
\* identified by its type and value, a list by its heap address.
Is(x, y) ==
  x = y

\* bool(x): Python truthiness, reading a list's contents from the heap
Truthy(x) ==
  CASE x.type = "NoneType" -> FALSE
    [] x.type = "int" -> x.int # 0
    [] x.type = "bool" -> x.bool
    [] x.type = "str" -> x.str # ""
    [] x.type = "list" -> heap[x.id] # <<>>
    [] OTHER -> TRUE

(* ------------------------------ outcomes ------------------------------- *)

NoOutcome ==
  [kind |-> "none"]

Return(v) ==
  [kind |-> "return", value |-> v]

Raise(exc, msg) ==
  [kind |-> "raise", exc |-> exc, msg |-> msg]

\* AssertionError("Unexpected `None`"); the backquotes of the source are
\* written as quotes, a TLA+ string cannot hold a backquote
UnexpectedNone ==
  Raise("AssertionError", "Unexpected 'None'")

(* --------------------------- module namespace -------------------------- *)

\* the names bound at module level once the module is imported
ModuleNames ==
  {"Any", "TypeVar", "tests", "type_variable_operators", "_T",
   "none_throws", "ParameterSpecification", "ListVariadic"}

\* what lines 2-45 bind them to
ModuleBindings ==
  [n \in ModuleNames |->
     CASE n = "Any" -> Any
       [] n = "TypeVar" -> [type |-> "typing.TypeVar"]
       [] n = "_T" -> [type |-> "TypeVar", str |-> "_T"]
       [] n \in {"tests", "type_variable_operators"} -> [type |-> "module", str |-> n]
       [] OTHER -> [type |-> "function", str |-> n]]

(* -------------------------------- Init --------------------------------- *)

Init ==
  /\ fn = [c \in Callers |-> "none"]
  /\ pc = [c \in Callers |-> "idle"]
  /\ arg = [c \in Callers |-> Unbound]
  /\ optional = [c \in Callers |-> Unbound]
  /\ name = [c \in Callers |-> Unbound]
  /\ outcome = [c \in Callers |-> NoOutcome]
  /\ heap = <<>>
  /\ module_globals = ModuleBindings

\* caller c runs no function: it never called, or its last call is over
Idle(c) ==
  pc[c] \in {"idle", "done"}

(* ----------------------------- none_throws ----------------------------- *)

\* line 10: a call binds the argument to the parameter `optional`
Call_none_throws(c, v) ==
  /\ Idle(c)
  /\ fn' = [fn EXCEPT ![c] = "none_throws"]
  /\ pc' = [pc EXCEPT ![c] = "14"]
  /\ arg' = [arg EXCEPT ![c] = v]
  /\ optional' = [optional EXCEPT ![c] = v]
  /\ name' = [name EXCEPT ![c] = Unbound]
  /\ outcome' = [outcome EXCEPT ![c] = NoOutcome]
  /\ UNCHANGED <<heap, module_globals>>

\* line 14 as `if not optional`: absence decided by truthiness
none_throws_14_truthiness(c) ==
  /\ fn[c] = "none_throws"
  /\ pc[c] = "14"
  /\ pc' = [pc EXCEPT ![c] = IF ~Truthy(optional[c]) THEN "15" ELSE "16"]
  /\ UNCHANGED <<fn, arg, optional, name, outcome, heap, module_globals>>

\* line 14: if optional is None
none_throws_14(c) ==
  /\ fn[c] = "none_throws"
  /\ pc[c] = "14"
  /\ pc' = [pc EXCEPT ![c] = IF Is(optional[c], PyNone) THEN "15" ELSE "16"]
  /\ UNCHANGED <<fn, arg, optional, name, outcome, heap, module_globals>>

\* line 15 raising a ValueError instead of the AssertionError
none_throws_15_ValueError(c) ==
  /\ fn[c] = "none_throws"
  /\ pc[c] = "15"
  /\ outcome' = [outcome EXCEPT ![c] = Raise("ValueError", "Unexpected 'None'")]
  /\ pc' = [pc EXCEPT ![c] = "done"]
  /\ optional' = [optional EXCEPT ![c] = Unbound]
  /\ UNCHANGED <<fn, arg, name, heap, module_globals>>

\* line 15 as a retry: the test of line 14 is run again instead of raising
none_throws_15_retry(c) ==
  /\ fn[c] = "none_throws"
  /\ pc[c] = "15"
  /\ pc' = [pc EXCEPT ![c] = "14"]
  /\ UNCHANGED <<fn, arg, optional, name, outcome, heap, module_globals>>

\* line 15: raise AssertionError("Unexpected `None`")
none_throws_15(c) ==
  /\ fn[c] = "none_throws"
  /\ pc[c] = "15"
  /\ outcome' = [outcome EXCEPT ![c] = UnexpectedNone]
  /\ pc' = [pc EXCEPT ![c] = "done"]
  /\ optional' = [optional EXCEPT ![c] = Unbound]
  /\ UNCHANGED <<fn, arg, name, heap, module_globals>>

\* line 16 as `return copy.copy(optional)`: a list comes back as a new object
none_throws_16_copy(c) ==
  /\ fn[c] = "none_throws"
  /\ pc[c] = "16"
  /\ IF optional[c].type = "list"
       THEN /\ heap' = Append(heap, heap[optional[c].id])
            /\ outcome' = [outcome EXCEPT ![c] = Return(PyList(Len(heap) + 1))]
       ELSE /\ heap' = heap
            /\ outcome' = [outcome EXCEPT ![c] = Return(optional[c])]
  /\ pc' = [pc EXCEPT ![c] = "done"]
  /\ optional' = [optional EXCEPT ![c] = Unbound]
  /\ UNCHANGED <<fn, arg, name, module_globals>>

\* line 16 without the return: the function falls off its end, returning None
none_throws_16_no_return(c) ==
  /\ fn[c] = "none_throws"
  /\ pc[c] = "16"
  /\ outcome' = [outcome EXCEPT ![c] = Return(PyNone)]
  /\ pc' = [pc EXCEPT ![c] = "done"]
  /\ optional' = [optional EXCEPT ![c] = Unbound]
  /\ UNCHANGED <<fn, arg, name, heap, module_globals>>

\* line 16 keeping the value in a module global and returning the value the
\* previous call left there
none_throws_16_last(c) ==
  /\ fn[c] = "none_throws"
  /\ pc[c] = "16"
  /\ outcome' = [outcome EXCEPT ![c] =
       IF module_globals["_T"].type = "TypeVar"
         THEN Return(optional[c]) ELSE Return(module_globals["_T"])]
  /\ module_globals' = [module_globals EXCEPT !["_T"] = optional[c]]
  /\ pc' = [pc EXCEPT ![c] = "done"]
  /\ optional' = [optional EXCEPT ![c] = Unbound]
  /\ UNCHANGED <<fn, arg, name, heap>>

\* line 16 emptying a list argument before returning it
none_throws_16_clear(c) ==
  /\ fn[c] = "none_throws"
  /\ pc[c] = "16"
  /\ heap' = IF optional[c].type = "list"
               THEN [heap EXCEPT ![optional[c].id] = <<>>] ELSE heap
  /\ outcome' = [outcome EXCEPT ![c] = Return(optional[c])]
  /\ pc' = [pc EXCEPT ![c] = "done"]
  /\ optional' = [optional EXCEPT ![c] = Unbound]
  /\ UNCHANGED <<fn, arg, name, module_globals>>

\* line 16 with `optional` kept in one slot shared by all callers: the value
\* returned is the one some running call bound
none_throws_16_shared(c) ==
  /\ fn[c] = "none_throws"
  /\ pc[c] = "16"
  /\ \E d \in Callers :
       /\ optional[d] # Unbound
       /\ outcome' = [outcome EXCEPT ![c] = Return(optional[d])]
  /\ pc' = [pc EXCEPT ![c] = "done"]
  /\ optional' = [optional EXCEPT ![c] = Unbound]
  /\ UNCHANGED <<fn, arg, name, heap, module_globals>>

\* line 16: return optional
none_throws_16(c) ==
  /\ fn[c] = "none_throws"
  /\ pc[c] = "16"
  /\ outcome' = [outcome EXCEPT ![c] = Return(optional[c])]
  /\ pc' = [pc EXCEPT ![c] = "done"]
  /\ optional' = [optional EXCEPT ![c] = Unbound]
  /\ UNCHANGED <<fn, arg, name, heap, module_globals>>

(* ------------------------ ParameterSpecification ----------------------- *)

\* the calls of ParameterSpecification that have not built their list yet
Pending ==
  {c \in Callers : pc[c] = "42"}

\* line 19: a call binds the argument to the parameter `name`; the heap
\* bound caps the number of calls
Call_ParameterSpecification(c, n) ==
  /\ Idle(c)
  /\ Len(heap) + Cardinality(Pending) < MaxObjs
  /\ fn' = [fn EXCEPT ![c] = "ParameterSpecification"]
  /\ pc' = [pc EXCEPT ![c] = "42"]
  /\ arg' = [arg EXCEPT ![c] = n]
  /\ name' = [name EXCEPT ![c] = n]
  /\ optional' = [optional EXCEPT ![c] = Unbound]
  /\ outcome' = [outcome EXCEPT ![c] = NoOutcome]
  /\ UNCHANGED <<heap, module_globals>>

\* line 42 returning one module-level list, built by the first call
ParameterSpecification_42_shared(c) ==
  /\ fn[c] = "ParameterSpecification"
  /\ pc[c] = "42"
  /\ heap' = IF heap = <<>> THEN <<(<<>>)>> ELSE heap
  /\ outcome' = [outcome EXCEPT ![c] = Return(PyList(1))]
  /\ pc' = [pc EXCEPT ![c] = "done"]
  /\ name' = [name EXCEPT ![c] = Unbound]
  /\ UNCHANGED <<fn, arg, optional, module_globals>>

\* line 42: return [] -- the list display builds a new, empty list object
ParameterSpecification_42(c) ==
  /\ fn[c] = "ParameterSpecification"
  /\ pc[c] = "42"
  /\ heap' = Append(heap, <<>>)
  /\ outcome' = [outcome EXCEPT ![c] = Return(PyList(Len(heap) + 1))]
  /\ pc' = [pc EXCEPT ![c] = "done"]
  /\ name' = [name EXCEPT ![c] = Unbound]
  /\ UNCHANGED <<fn, arg, optional, module_globals>>

(* ----------------------------- ListVariadic ---------------------------- *)

\* line 45: a call binds the argument to the parameter `name`
Call_ListVariadic(c, n) ==
  /\ Idle(c)
  /\ fn' = [fn EXCEPT ![c] = "ListVariadic"]
  /\ pc' = [pc EXCEPT ![c] = "46"]
  /\ arg' = [arg EXCEPT ![c] = n]
  /\ name' = [name EXCEPT ![c] = n]
  /\ optional' = [optional EXCEPT ![c] = Unbound]
  /\ outcome' = [outcome EXCEPT ![c] = NoOutcome]
  /\ UNCHANGED <<heap, module_globals>>

\* line 46 as `return name`
ListVariadic_46_name(c) ==
  /\ fn[c] = "ListVariadic"
  /\ pc[c] = "46"
  /\ outcome' = [outcome EXCEPT ![c] = Return(name[c])]
  /\ pc' = [pc EXCEPT ![c] = "done"]
  /\ name' = [name EXCEPT ![c] = Unbound]
  /\ UNCHANGED <<fn, arg, optional, heap, module_globals>>

\* line 46: return Any
ListVariadic_46(c) ==
  /\ fn[c] = "ListVariadic"
  /\ pc[c] = "46"
  /\ outcome' = [outcome EXCEPT ![c] = Return(module_globals["Any"])]
  /\ pc' = [pc EXCEPT ![c] = "done"]
  /\ name' = [name EXCEPT ![c] = Unbound]
  /\ UNCHANGED <<fn, arg, optional, heap, module_globals>>

(* ------------------------------- callers ------------------------------- *)

\* the elements appended so far, as (list, position) pairs
Appended ==
  UNION {{<<i, j>> : j \in 1..Len(heap[i])} : i \in 1..Len(heap)}

\* a caller that is not inside a call appends to a list it was handed:
\* the list returned at line 42 is an ordinary mutable list
ListAppend(c, id, v) ==
  /\ Idle(c)
  /\ id \in 1..Len(heap)
  /\ Cardinality(Appended) < MaxAppends
  /\ heap' = [heap EXCEPT ![id] = Append(@, v)]
  /\ UNCHANGED <<fn, pc, arg, optional, name, outcome, module_globals>>

(* --------------------------- specification ----------------------------- *)

Next ==
  \/ \E c \in Callers : \E v \in Arguments(heap) : Call_none_throws(c, v)
  \/ \E c \in Callers : none_throws_14(c)
  \/ \E c \in Callers : none_throws_15(c)
  \/ \E c \in Callers : none_throws_16(c)
  \/ \E c \in Callers : \E n \in Names : Call_ParameterSpecification(c, n)
  \/ \E c \in Callers : ParameterSpecification_42(c)
  \/ \E c \in Callers : \E n \in Names : Call_ListVariadic(c, n)
  \/ \E c \in Callers : ListVariadic_46(c)
  \/ \E c \in Callers : \E id \in 1..MaxObjs : \E v \in AppendValues :
        ListAppend(c, id, v)

Spec ==
  Init /\ [][Next]_vars

\* a step of caller c inside one of the functions (not the call itself)
Step(c) ==
  \/ none_throws_14(c)
  \/ none_throws_15(c)
  \/ none_throws_16(c)
  \/ ParameterSpecification_42(c)
  \/ ListVariadic_46(c)

\* the lists a caller may have built itself before it calls none_throws
CallerHeaps ==
  {<<>>, <<(<<>>)>>, <<(<<PyInt(7)>>)>>}

\* the module imported, the callers holding lists of their own
NoneThrowsInit ==
  /\ fn = [c \in Callers |-> "none"]
  /\ pc = [c \in Callers |-> "idle"]
  /\ arg = [c \in Callers |-> Unbound]
  /\ optional = [c \in Callers |-> Unbound]
  /\ name = [c \in Callers |-> Unbound]
  /\ outcome = [c \in Callers |-> NoOutcome]
  /\ heap \in CallerHeaps
  /\ module_globals = ModuleBindings

\* the callers call none_throws only
NoneThrowsNext ==
  \/ \E c \in Callers : \E v \in Arguments(heap) : Call_none_throws(c, v)
  \/ \E c \in Callers : none_throws_14(c)
  \/ \E c \in Callers : none_throws_15(c)
  \/ \E c \in Callers : none_throws_16(c)

\* a caller inside none_throws is scheduled until the call is over: the body
\* waits for nothing
NoneThrowsSpec ==
  /\ NoneThrowsInit
  /\ [][NoneThrowsNext]_vars
  /\ \A c \in Callers :
       WF_vars(none_throws_14(c) \/ none_throws_15(c) \/ none_throws_16(c))

(* ------------------------- optionals in Python ------------------------- *)

\* Optional[_T] of line 11 is Union[_T, None]: a present value is the value
\* itself and the absent value is None
Present(v) ==
  v

Absent ==
  PyNone

(* ------------------------------- claims -------------------------------- *)

\* caller c's last call was to f and is over
Completed(c, f) ==
  fn[c] = f /\ pc[c] = "done"

\* caller c is inside none_throws
Running(c) ==
  fn[c] = "none_throws" /\ pc[c] \in {"14", "15", "16"}

\* the values that are not None
PresentValues ==
  Arguments(heap) \ {PyNone}

\* C1: a call of none_throws on a present value v returns v itself (for a
\* list, the same object), and does not raise.
C1_IdentityLaw ==
  \A c \in Callers :
    (Completed(c, "none_throws") /\ arg[c] \in PresentValues)
      => outcome[c] = Return(arg[c])

\* a call on a list object has returned that very object
C1_Witness ==
  \E c \in Callers :
    /\ Completed(c, "none_throws")
    /\ arg[c].type = "list"
    /\ outcome[c] = Return(arg[c])

\* C2: a call of none_throws on None raises AssertionError with the one fixed
\* message, returns no value, and the raising step changes nothing but the
\* caller's own frame.
C2_AbsentRaises ==
  /\ [](\A c \in Callers :
          (Completed(c, "none_throws") /\ arg[c] = PyNone)
            => outcome[c] = UnexpectedNone)
  /\ [][\A c \in Callers :
          (pc[c] = "15" /\ pc'[c] # "15")
            => /\ outcome'[c].kind = "raise"
               /\ heap' = heap
               /\ module_globals' = module_globals
               /\ \A d \in Callers \ {c} :
                    /\ outcome'[d] = outcome[d]
                    /\ optional'[d] = optional[d]]_vars

\* two calls on None have both raised
C2_Witness ==
  \A c \in Callers :
    /\ Completed(c, "none_throws")
    /\ arg[c] = PyNone
    /\ outcome[c].kind = "raise"

\* C3: a present value that is falsy (0, False, "", an empty list) is
\* returned, not reported absent.
C3_FalsyPresent ==
  \A c \in Callers :
    (Completed(c, "none_throws") /\ arg[c] # PyNone /\ ~Truthy(arg[c]))
      => outcome[c] = Return(arg[c])

\* calls on the empty string and on an empty list have returned them
C3_Witness ==
  \E c, d \in Callers :
    /\ Completed(c, "none_throws") /\ Completed(d, "none_throws")
    /\ arg[c] = PyStr("") /\ outcome[c] = Return(PyStr(""))
    /\ arg[d].type = "list" /\ heap[arg[d].id] = <<>>
    /\ outcome[d] = Return(arg[d])

\* the inner optionals of a nested optional: present(w) or absent
InnerOptionals ==
  {Present(w) : w \in PresentValues} \cup {Absent}

\* C4 as stated: for every inner optional x, present or absent, the call on
\* present(x) returns x.
C4_Original ==
  \A c \in Callers :
    Completed(c, "none_throws") =>
      \A x \in InnerOptionals :
        arg[c] = Present(x) => outcome[c] = Return(x)

\* C4 as amended: for every inner optional that is present, the call on
\* present(present(w)) returns present(w); a nested optional whose inner
\* optional is absent is None itself, and the call on it raises.
C4_OneLayer ==
  \A c \in Callers :
    Completed(c, "none_throws") =>
      /\ \A w \in PresentValues :
           arg[c] = Present(Present(w)) => outcome[c] = Return(Present(w))
      /\ arg[c] = Present(Absent) => outcome[c].kind = "raise"

\* the call on present(present(7)) has returned present(7)
C4_Witness ==
  \E c \in Callers :
    /\ Completed(c, "none_throws")
    /\ arg[c] = Present(Present(PyInt(7)))
    /\ outcome[c] = Return(Present(PyInt(7)))

\* the position of a line of none_throws in the order of execution
Rank(l) ==
  CASE l = "14" -> 1
    [] l \in {"15", "16"} -> 2
    [] OTHER -> 3

\* C5: every call of none_throws ends, with a return or with the
\* AssertionError and nothing else; it raises only on None; a running call
\* can always take its next step (never blocks) and never goes back to a
\* line it has executed (never retries).
C5_Total ==
  /\ [](\A c \in Callers :
          /\ Completed(c, "none_throws") =>
               /\ outcome[c].kind \in {"return", "raise"}
               /\ outcome[c].kind = "raise" =>
                    (outcome[c].exc = "AssertionError" /\ arg[c] = PyNone)
          /\ Running(c) => (outcome[c] = NoOutcome /\ ENABLED Step(c)))
  /\ [][\A c \in Callers :
          (Running(c) /\ pc'[c] # pc[c]) => Rank(pc'[c]) > Rank(pc[c])]_vars
  /\ \A c \in Callers : Running(c) ~> Completed(c, "none_throws")

\* one call has ended by raising and another by returning
C5_Witness ==
  \E c, d \in Callers :
    /\ Completed(c, "none_throws") /\ outcome[c].kind = "raise"
    /\ Completed(d, "none_throws") /\ outcome[d].kind = "return"

\* C6: two calls of none_throws with the same argument, made by different
\* callers at different times and after any earlier calls, have the same
\* outcome.
C6_Deterministic ==
  \A c, d \in Callers :
    (Completed(c, "none_throws") /\ Completed(d, "none_throws")
       /\ arg[c] = arg[d])
      => outcome[c] = outcome[d]

\* two callers have completed a call on the same list, after the calls of
\* ParameterSpecification and the append that produced it
C6_Witness ==
  \E c, d \in Callers :
    /\ c # d
    /\ Completed(c, "none_throws") /\ Completed(d, "none_throws")
    /\ arg[c] = arg[d]
    /\ arg[c].type = "list" /\ heap[arg[c].id] # <<>>
    /\ outcome[c].kind = "return"

\* C7: no step of none_throws, returning or raising, changes the heap (the
\* contents of every list, the argument included), the module's globals or
\* the argument.
C7_Frame ==
  [][\A c \in Callers :
       (Running(c) /\ pc'[c] # pc[c])
         => /\ heap' = heap
            /\ module_globals' = module_globals
            /\ arg'[c] = arg[c]]_vars

\* a call on a list that has an element has returned, the element in place
C7_Witness ==
  \E c \in Callers :
    /\ Completed(c, "none_throws")
    /\ arg[c].type = "list"
    /\ heap[arg[c].id] = <<PyInt(7)>>
    /\ module_globals = ModuleBindings

\* the outcome of a call made alone
Sequential(v) ==
  IF v = PyNone THEN UnexpectedNone ELSE Return(v)

\* C8: under every interleaving each caller works on its own argument and
\* gets the outcome of a sequential call on it; a step of one caller leaves
\* the frames and outcomes of the others alone, and is never disabled by
\* them.
C8_Concurrent ==
  /\ [](\A c \in Callers :
          /\ Completed(c, "none_throws") => outcome[c] = Sequential(arg[c])
          /\ Running(c) =>
               /\ optional[c] = arg[c]
               /\ pc[c] = "15" => arg[c] = PyNone
               /\ pc[c] = "16" => arg[c] # PyNone
               /\ ENABLED Step(c))
  /\ [][\A c \in Callers :
          (Running(c) /\ pc'[c] # pc[c]) =>
            \A d \in Callers \ {c} :
              /\ fn'[d] = fn[d] /\ pc'[d] = pc[d] /\ arg'[d] = arg[d]
              /\ optional'[d] = optional[d] /\ outcome'[d] = outcome[d]]_vars

\* one caller's call on None has raised while another caller's call on a
\* present value is still running
C8_Witness ==
  \E c, d \in Callers :
    /\ Completed(c, "none_throws") /\ outcome[c] = UnexpectedNone
    /\ fn[d] = "none_throws" /\ pc[d] = "16" /\ arg[d] = PyInt(7)

\* C9: for every name, ParameterSpecification(name) returns a list that is
\* empty when returned and ListVariadic(name) returns Any; neither raises.
C9_Factories ==
  /\ [](\A c \in Callers :
          /\ Completed(c, "ListVariadic") => outcome[c] = Return(Any)
          /\ Completed(c, "ParameterSpecification") =>
               (outcome[c].kind = "return" /\ outcome[c].value.type = "list"))
  /\ [][\A c \in Callers :
          (pc[c] = "42" /\ pc'[c] = "done") =>
             heap'[outcome'[c].value.id] = <<>>]_vars

\* both factories have returned, called with different names
C9_Witness ==
  \E c, d \in Callers :
    /\ Completed(c, "ParameterSpecification") /\ arg[c] = PyStr("Tparams")
    /\ Completed(d, "ListVariadic") /\ arg[d] = PyStr("Ts")

\* C10: the list ParameterSpecification returns is a new object, empty, and
\* its creation leaves every earlier list as it was, whatever callers
\* appended to those; two returned lists are never the same object.
C10_FreshList ==
  /\ [](\A c, d \in Callers :
          (c # d /\ Completed(c, "ParameterSpecification")
             /\ Completed(d, "ParameterSpecification"))
            => outcome[c].value # outcome[d].value)
  /\ [][\A c \in Callers :
          (pc[c] = "42" /\ pc'[c] = "done") =>
             /\ outcome'[c].value.id \notin 1..Len(heap)
             /\ heap'[outcome'[c].value.id] = <<>>
             /\ \A i \in 1..Len(heap) : heap'[i] = heap[i]]_vars

\* a call has returned an empty list after an earlier list was appended to
C10_Witness ==
  \E c \in Callers :
    /\ Completed(c, "ParameterSpecification")
    /\ heap[outcome[c].value.id] = <<>>
    /\ \E i \in 1..Len(heap) : heap[i] # <<>>

====
